---- MODULE Spec2Model ----
(***************************************************************************)
(* Model of package asyncdl (src/asyncdl.go): the download Manager, its    *)
(* Download pipeline (generator, workers, sentinel, result processor),     *)
(* Close, and the URL parser.                                              *)
(*                                                                         *)
(* Strings are sequences of one-character strings, so that the regular     *)
(* expression, url.Parse and path.Base can be computed as the code         *)
(* computes them.  The alphabet of the URLs below has no '%', no ':' in    *)
(* the host, no blank and no control character, so url.Parse never fails   *)
(* on them and never has to unescape anything.                             *)
(*                                                                         *)
(* An error value is the chain of its messages, outermost first: nil is    *)
(* the empty chain, fmt.Errorf("...: %w", err) puts one link in front of   *)
(* err, errors.Unwrap is Tail.                                             *)
(***************************************************************************)
EXTENDS Integers, Sequences, FiniteSets, Bags, TLC

\* ------------------------------------------------------------------------
\* Bounds of the model.

\* Longest list of URLs handed to Download.
MaxUrls == 2

\* Largest value handed to the NumWorkers option.
MaxWorkers == 2

\* Number of goroutines that call Close.
NumClosers == 2

\* Longest list of URLs handed to parseURLs on its own.
MaxParse == 2

\* Longest response body.
MaxBody == 2

\* ------------------------------------------------------------------------
\* Program constants.

defNumWorkers == 12

\* http.StatusOK
StatusOK == 200

\* ------------------------------------------------------------------------
\* Errors.

Nil == <<>>

Err(msg, arg) == << [msg |-> msg, arg |-> arg] >>

\* fmt.Errorf with %w: a new link in front of the cause.
Wrap(msg, arg, cause) == << [msg |-> msg, arg |-> arg] >> \o cause

\* errors.Is: err or any error it wraps equals target.
ErrorsIs(err, target) ==
    /\ target # Nil
    /\ \E i \in 1..Len(err) : SubSeq(err, i, Len(err)) = target

Canceled == Err("context canceled", <<>>)

DeadlineExceeded == Err("context deadline exceeded", <<>>)

\* io.EOF, the error the tests' fetch function returns; it stands for
\* every error of a fetch that is not the context's.
EOF == Err("EOF", <<>>)

\* ------------------------------------------------------------------------
\* URLs of the model.

EmptyURL == <<>>

\* "http://h/ab"
UrlAB == <<"h","t","t","p",":","/","/","h","/","a","b">>

\* "https://h/x/ab": another URL with the same last path element.
UrlXAB == <<"h","t","t","p","s",":","/","/","h","/","x","/","a","b">>

\* "http://h/cd"
UrlCD == <<"h","t","t","p",":","/","/","h","/","c","d">>

\* "http://h/ab/": a directory.
UrlDir == <<"h","t","t","p",":","/","/","h","/","a","b","/">>

\* "http://h/a": last path element of length 1.
UrlShort == <<"h","t","t","p",":","/","/","h","/","a">>

\* "b/ab": no scheme.
UrlNoScheme == <<"b","/","a","b">>

\* "http://h": no path at all.
UrlNoPath == <<"h","t","t","p",":","/","/","h">>

\* "http://h/?ab": the text after the last slash is the query, not the path.
UrlQuery == <<"h","t","t","p",":","/","/","h","/","?","a","b">>

\* "ftp://h/ab"
UrlFtp == <<"f","t","p",":","/","/","h","/","a","b">>

\* ------------------------------------------------------------------------
\* String helpers.

HasPrefix(s, p) == Len(s) >= Len(p) /\ SubSeq(s, 1, Len(p)) = p

\* Index of the first c in s, 0 if there is none.
IndexOf(s, c) ==
    IF \E i \in 1..Len(s) : s[i] = c
    THEN CHOOSE i \in 1..Len(s) : s[i] = c /\ \A j \in 1..(i - 1) : s[j] # c
    ELSE 0

\* Index of the last c in s, 0 if there is none.
LastIndexOf(s, c) ==
    IF \E i \in 1..Len(s) : s[i] = c
    THEN CHOOSE i \in 1..Len(s) : s[i] = c /\ \A j \in (i + 1)..Len(s) : s[j] # c
    ELSE 0

\* s up to, and without, the first c; all of s if there is none.
Before(s, c) == IF IndexOf(s, c) = 0 THEN s ELSE SubSeq(s, 1, IndexOf(s, c) - 1)

\* s from position i on.
From(s, i) == SubSeq(s, i, Len(s))

RECURSIVE TrimRightSlashes(_)
TrimRightSlashes(s) ==
    IF Len(s) > 0 /\ s[Len(s)] = "/"
    THEN TrimRightSlashes(SubSeq(s, 1, Len(s) - 1))
    ELSE s

\* ------------------------------------------------------------------------
\* URL parser.

\* httpRe.MatchString: ^https?://.*[^/]$
httpRe(uri) ==
    LET p == IF HasPrefix(uri, <<"h","t","t","p","s",":","/","/">>) THEN 8
             ELSE IF HasPrefix(uri, <<"h","t","t","p",":","/","/">>) THEN 7
             ELSE 0
    IN  /\ p > 0
        /\ Len(uri) > p
        /\ uri[Len(uri)] # "/"

\* url.Parse(uri).Path for scheme://authority[/path][?query][#fragment]:
\* the fragment is cut at the first '#', then the query at the first '?',
\* then the scheme and the authority are taken off.
URLPath(uri) ==
    LET nofrag  == Before(uri, "#")
        noquery == Before(nofrag, "?")
        colon   == IndexOf(noquery, ":")
        rest    == From(noquery, colon + 1)
        afterAuthority == IF HasPrefix(rest, <<"/","/">>) THEN From(rest, 3) ELSE rest
        slash   == IndexOf(afterAuthority, "/")
    IN  IF HasPrefix(rest, <<"/","/">>)
        THEN IF slash = 0 THEN <<>> ELSE From(afterAuthority, slash)
        ELSE rest

\* path.Base
PathBase(p) ==
    IF p = <<>> THEN <<".">>
    ELSE LET t == TrimRightSlashes(p)
             b == From(t, LastIndexOf(t, "/") + 1)
         IN  IF b = <<>> THEN <<"/">> ELSE b

\* basename returns the last element of the path in the URL, as
\* [name, err].
basename(uri) ==
    IF ~httpRe(uri)
    THEN [name |-> <<>>, err |-> Err("invalid uri", uri)]
    ELSE LET bp == PathBase(URLPath(uri))
         IN  IF Len(bp) < 2
             THEN [name |-> <<>>, err |-> Err("not a file", bp)]
             ELSE [name |-> bp, err |-> Nil]

\* parseLoop returning, with the error, the requests built before it.
RECURSIVE parseLoopPartial(_, _, _)
parseLoopPartial(urls, i, reqs) ==
    IF i > Len(urls) THEN [reqs |-> reqs, err |-> Nil]
    ELSE IF Len(urls[i]) = 0 THEN parseLoopPartial(urls, i + 1, reqs)
    ELSE LET b == basename(urls[i])
         IN  IF b.err # Nil
             THEN [reqs |-> reqs, err |-> b.err]
             ELSE parseLoopPartial(urls, i + 1,
                                   Append(reqs, [filename |-> b.name, url |-> urls[i]]))

RECURSIVE parseLoop(_, _, _)
parseLoop(urls, i, reqs) ==
    IF i > Len(urls) THEN [reqs |-> reqs, err |-> Nil]
    ELSE IF Len(urls[i]) = 0 THEN parseLoop(urls, i + 1, reqs)
    ELSE LET b == basename(urls[i])
         IN  IF b.err # Nil
             THEN [reqs |-> <<>>, err |-> b.err]
             ELSE parseLoop(urls, i + 1,
                            Append(reqs, [filename |-> b.name, url |-> urls[i]]))

\* parseURLs parses the provided URLs and returns [reqs, err].
parseURLs(urls) == parseLoop(urls, 1, <<>>)

\* ------------------------------------------------------------------------
\* Options.

\* NumWorkers(n): the number of workers the option leaves in the Manager.
NumWorkers(n) == IF n < 1 THEN defNumWorkers ELSE n

\* ------------------------------------------------------------------------
\* State.

VARIABLES
    cfgWorkers,     \* the argument n of the option NumWorkers(n)
    numWorkers,     \* Manager.numWorkers
    ignoreHTTPerr,  \* Manager.ignoreHTTPerr
    viaPath,        \* TRUE: built by NewWithPath (fsc is a real FSCloser);
                    \* FALSE: built by New (fsc is a nopcloser)
    isClosed,       \* Manager.isClosed
    fscCloses,      \* number of calls of m.fsc.Close() on a real FSCloser
    cpc,            \* position of each caller of Close
    ctxErr,         \* ctx.Err(): Nil while the context is live
    dl,             \* position of the caller of Download
    ret,            \* the error Download returned
    urls,           \* Download's urls argument
    reqs,           \* the parsed requests
    total,          \* total of the result processor
    count,          \* count of the result processor
    lg,             \* the lines printed to the logger
    gen,            \* position of the generator goroutine
    next,           \* index in reqs of the generator's next request
    urlC,           \* state of the request channel
    resultC,        \* state of the result channel
    wg,             \* counter of the WaitGroup
    workers,        \* the worker goroutines: a bag of their local states
    fetchCalls,     \* bag of the calls of fetchFn made so far
    delivered,      \* the results received from resultC, in order
    tp,             \* position of the caller of DownloadToPath
    newErr,         \* the error NewWithPath returned to DownloadToPath
    tpRet,          \* the error DownloadToPath returned
    gpc,            \* position of a direct call of get
    resp,           \* what the collaborators of that call of get answer
    file,           \* the content of the destination file of that call
    getErr          \* the error that call of get returned

vars == << cfgWorkers, numWorkers, ignoreHTTPerr, viaPath, isClosed, fscCloses,
           cpc, ctxErr, dl, ret, urls, reqs, total, count, lg, gen, next, urlC,
           resultC, wg, workers, fetchCalls, delivered, tp, newErr, tpRet, gpc,
           resp, file, getErr >>

mgrVars == << cfgWorkers, numWorkers, ignoreHTTPerr, viaPath >>

toPathVars == << tp, newErr, tpRet >>

getVars == << gpc, resp, file, getErr >>

closeVars == << isClosed, fscCloses, cpc >>

genVars == << gen, next, urlC >>

workerVars == << workers, wg, fetchCalls >>

coordVars == << dl, ret, urls, reqs, total, count, lg, delivered >>

\* The goroutines that call Close, each any number of times.
Closers == 1..NumClosers

\* The URLs a caller hands to Download.
UrlPool == {EmptyURL, UrlAB, UrlXAB, UrlDir}

UrlLists == UNION {[1..n -> UrlPool] : n \in 0..MaxUrls}

\* A request on its way through the pipeline: id is its index in reqs (the
\* code's request has no such field; it tells two equal requests apart).
NoReq == [id |-> 0, filename |-> <<>>, url |-> <<>>]

NoRes == [filename |-> <<>>, err |-> Nil]

\* The destination file does not exist.
NoFile == [exists |-> FALSE, data |-> <<>>]

\* The destination file exists and holds data.
File(data) == [exists |-> TRUE, data |-> data]

\* No call of get: nothing to answer.
NoResp == [fault |-> "none", status |-> 0, body |-> <<>>]

\* The local state of a worker goroutine: its position, the request it
\* holds (req), the error fetchFn returned (err), the result it is sending
\* (res), and how many cancellation results it has sent so far.  The
\* goroutines are anonymous: workers is the bag of these states.
NewWorker ==
    [pc |-> "select", req |-> NoReq, err |-> Nil, res |-> NoRes, cancels |-> 0]

\* The workers that are in local state e.
WorkerStates == BagToSet(workers)

\* workers after one worker steps from local state e to local state f.
Step(e, f) == (workers (-) SetToBag({e})) (+) SetToBag({f})

\* No call of DownloadToPath is made.
NoToPath ==
    /\ tp = "none"
    /\ newErr = Nil
    /\ tpRet = Nil

\* No direct call of get is made.
NoGet ==
    /\ gpc = "none"
    /\ resp = NoResp
    /\ file = NoFile
    /\ getErr = Nil

\* A Manager on which neither Close nor Download has been called, and a
\* context whose Err() is cerr.
Fresh(cerr) ==
    /\ isClosed = FALSE
    /\ fscCloses = 0
    /\ cpc = [c \in Closers |-> "idle"]
    /\ ctxErr = cerr
    /\ dl = "idle"
    /\ ret = Nil
    /\ reqs = <<>>
    /\ total = 0
    /\ count = 0
    /\ lg = <<>>
    /\ gen = "none"
    /\ next = 1
    /\ urlC = "nil"
    /\ resultC = "nil"
    /\ wg = 0
    /\ workers = EmptyBag
    /\ fetchCalls = EmptyBag
    /\ delivered = <<>>

\* The state after New / NewWithPath with the options applied, before any
\* call of Close or Download, with a context whose Err() is cerr.
Start(cerr) ==
    /\ cfgWorkers \in 1..MaxWorkers
    /\ numWorkers = NumWorkers(cfgWorkers)
    /\ ignoreHTTPerr \in BOOLEAN
    /\ viaPath \in BOOLEAN
    /\ urls = <<>>
    /\ NoToPath
    /\ NoGet
    /\ Fresh(cerr)

\* The caller starts with a live context.
Init == Start(Nil)

\* The caller starts with a context that is done already: cancelled, or
\* past its deadline.
InitDone == \E cerr \in {Canceled, DeadlineExceeded} : Start(cerr)

\* ------------------------------------------------------------------------
\* The context.
\*
\* A select picks at random among the cases that can proceed when it is
\* evaluated, and parks the goroutine when none can.  A send or a receive
\* of a select can proceed only if the other side is parked on the channel
\* (urlC is unbuffered); a parked goroutine is woken by the first event on
\* one of its channels, and is then bound to that case.  So closing the
\* context's Done channel wakes every goroutine parked in a select, bound
\* to its case <-ctx.Done().

\* The worker's local state after select, case <-ctx.Done(): it goes to
\* send result{err: ctx.Err()}.
OnCtxDone(e, cerr) ==
    [e EXCEPT !.pc = "cancel", !.res = [filename |-> <<>>, err |-> cerr]]

\* The local state of a worker in state e once the Done channel is closed
\* with error cerr.
WakeOnDone(e, cerr) == IF e.pc = "parked" THEN OnCtxDone(e, cerr) ELSE e

\* workers once the Done channel is closed with error cerr.  (A worker
\* that close(urlC) found parked is no longer in state "parked".)
WokenWorkers(cerr) ==
    [f \in {WakeOnDone(e, cerr) : e \in WorkerStates} |->
        BagCardinality([e \in {x \in WorkerStates : WakeOnDone(x, cerr) = f}
                           |-> workers[e]])]

\* The context ends with error cerr: its Done channel is closed.  A parked
\* generator is bound to its case <-ctx.Done() from here on (GenCtxDone).
CtxDone(cerr) ==
    /\ ctxErr = Nil
    /\ ctxErr' = cerr
    /\ workers' = WokenWorkers(cerr)
    /\ UNCHANGED << toPathVars, getVars, mgrVars, closeVars, genVars, wg, fetchCalls, coordVars, resultC >>

\* The caller cancels the context (before or during Download, or after it).
Cancel == CtxDone(Canceled)

\* The deadline of the context expires.
Deadline == CtxDone(DeadlineExceeded)

\* ------------------------------------------------------------------------
\* Manager.Close, one step per access of the shared isClosed.

\* Closer c calls Close: the type test of fsc and isClosed.Load().  The call
\* returns nil at once on a nopcloser and on a closed manager.
CloseLoad(c) ==
    /\ cpc[c] = "idle"
    /\ cpc' = [cpc EXCEPT ![c] = IF ~viaPath \/ isClosed THEN "idle" ELSE "store"]
    /\ UNCHANGED << toPathVars, getVars, mgrVars, isClosed, fscCloses, ctxErr, genVars, workerVars,
                    coordVars, resultC >>

\* isClosed.Store(true)
CloseStore(c) ==
    /\ cpc[c] = "store"
    /\ isClosed' = TRUE
    /\ cpc' = [cpc EXCEPT ![c] = "close"]
    /\ UNCHANGED << toPathVars, getVars, mgrVars, fscCloses, ctxErr, genVars, workerVars, coordVars,
                    resultC >>

\* return m.fsc.Close()
CloseFsc(c) ==
    /\ cpc[c] = "close"
    /\ fscCloses' = fscCloses + 1
    /\ cpc' = [cpc EXCEPT ![c] = "idle"]
    /\ UNCHANGED << toPathVars, getVars, mgrVars, isClosed, ctxErr, genVars, workerVars, coordVars,
                    resultC >>

\* ------------------------------------------------------------------------
\* Manager.Download: entry, up to the start of the result loop.

\* The number of workers Download spawns.
EffectiveWorkers(n) == IF n = 0 THEN defNumWorkers ELSE n

\* Enter with a parser that skips the URLs it cannot parse.
EnterSkipInvalid(closed, u) ==
    IF closed
    THEN [err |-> Err("manager is closed", <<>>), reqs |-> <<>>]
    ELSE [err |-> Nil,
          reqs |-> parseURLs(SelectSeq(u, LAMBDA x : basename(x).err = Nil)).reqs]

\* What Download does before the pipeline: the error it returns at once
\* (Nil if it goes on) and the requests it goes on with.
Enter(closed, u) ==
    IF closed
    THEN [err |-> Err("manager is closed", <<>>), reqs |-> <<>>]
    ELSE IF parseURLs(u).err # Nil
    THEN [err |-> Wrap("error parsing urls", <<>>, parseURLs(u).err), reqs |-> <<>>]
    ELSE [err |-> Nil, reqs |-> parseURLs(u).reqs]

\* Download called on a closed manager, or with URLs that do not parse:
\* it returns the error.
DownloadReject(u) ==
    /\ dl = "idle"
    /\ Enter(isClosed, u).err # Nil
    /\ numWorkers' = IF isClosed THEN numWorkers ELSE EffectiveWorkers(numWorkers)
    /\ urls' = u
    /\ ret' = Enter(isClosed, u).err
    /\ dl' = "returned"
    /\ UNCHANGED << toPathVars, getVars, cfgWorkers, ignoreHTTPerr, viaPath, closeVars, ctxErr, genVars, workerVars,
                    reqs, total, count, lg, delivered, resultC >>

\* DownloadSpawn with one worker too many (i <= m.numWorkers).
DownloadSpawnOneMore(u) ==
    /\ dl = "idle"
    /\ Enter(isClosed, u).err = Nil
    /\ numWorkers' = EffectiveWorkers(numWorkers)
    /\ urls' = u
    /\ reqs' = Enter(isClosed, u).reqs
    /\ urlC' = "open"
    /\ resultC' = "open"
    /\ gen' = "run"
    /\ next' = 1
    /\ wg' = numWorkers' + 1
    /\ workers' = [e \in {NewWorker} |-> numWorkers' + 1]
    /\ total' = Len(u)
    /\ count' = 0
    /\ dl' = "drain"
    /\ UNCHANGED << toPathVars, getVars, cfgWorkers, ignoreHTTPerr, viaPath, closeVars, ctxErr, ret, lg, fetchCalls,
                    delivered >>

\* Download parses the URLs, makes the channels and spawns the generator,
\* the workers and the sentinel; the caller enters the result loop.
DownloadSpawn(u) ==
    /\ dl = "idle"
    /\ Enter(isClosed, u).err = Nil
    /\ numWorkers' = EffectiveWorkers(numWorkers)
    /\ urls' = u
    /\ reqs' = Enter(isClosed, u).reqs
    /\ urlC' = "open"
    /\ resultC' = "open"
    /\ gen' = "run"
    /\ next' = 1
    /\ wg' = numWorkers'
    /\ workers' = [e \in {NewWorker} |-> numWorkers']
    /\ total' = Len(u)
    /\ count' = 0
    /\ dl' = "drain"
    /\ UNCHANGED << toPathVars, getVars, cfgWorkers, ignoreHTTPerr, viaPath, closeVars, ctxErr, ret, lg, fetchCalls,
                    delivered >>

\* ------------------------------------------------------------------------
\* The generator goroutine.

\* Some worker is parked in its select.
WorkerParked == \E e \in WorkerStates : e.pc = "parked"

\* select with nothing that can proceed: the context is live and no worker
\* is parked on urlC.  The generator parks.
GenPark ==
    /\ gen = "run"
    /\ next <= Len(reqs)
    /\ ctxErr = Nil
    /\ ~WorkerParked
    /\ gen' = "parked"
    /\ UNCHANGED << toPathVars, getVars, mgrVars, closeVars, ctxErr, next, urlC, workerVars, coordVars,
                    resultC >>

\* workers once urlC is closed: the workers parked on it are woken, bound
\* to the receive with more false.
ReleasedWorkers ==
    [f \in {IF e.pc = "parked" THEN [e EXCEPT !.pc = "closed"] ELSE e :
            e \in WorkerStates} |->
        IF f.pc = "closed"
        THEN BagCardinality([e \in {x \in WorkerStates : x.pc \in {"parked", "closed"}}
                                |-> workers[e]])
        ELSE workers[f]]

\* select, case <-ctx.Done(), taken when the generator evaluates its select
\* or when the closing of Done wakes it: return, and the deferred
\* close(urlC).
GenCtxDone ==
    /\ gen \in {"run", "parked"}
    /\ next <= Len(reqs)
    /\ ctxErr # Nil
    /\ gen' = "done"
    /\ urlC' = "closed"
    /\ workers' = ReleasedWorkers
    /\ UNCHANGED << toPathVars, getVars, mgrVars, closeVars, ctxErr, next, wg, fetchCalls, coordVars,
                    resultC >>

\* GenClose with the loop ending one request early.
GenCloseEarly ==
    /\ gen = "run"
    /\ next >= Len(reqs)
    /\ gen' = "done"
    /\ urlC' = "closed"
    /\ workers' = ReleasedWorkers
    /\ UNCHANGED << toPathVars, getVars, mgrVars, closeVars, ctxErr, next, wg, fetchCalls, coordVars,
                    resultC >>

\* The loop is over: the deferred close(urlC).
GenClose ==
    /\ gen = "run"
    /\ next > Len(reqs)
    /\ gen' = "done"
    /\ urlC' = "closed"
    /\ workers' = ReleasedWorkers
    /\ UNCHANGED << toPathVars, getVars, mgrVars, closeVars, ctxErr, next, wg, fetchCalls, coordVars,
                    resultC >>

\* ------------------------------------------------------------------------
\* Manager.worker.

\* select with nothing that can proceed: the context is live, urlC is open
\* and the generator is not parked on it.  The worker parks.
WorkerPark(e) ==
    /\ e.pc = "select"
    /\ ctxErr = Nil
    /\ urlC = "open"
    /\ gen # "parked"
    /\ workers' = Step(e, [e EXCEPT !.pc = "parked"])
    /\ UNCHANGED << toPathVars, getVars, mgrVars, closeVars, ctxErr, genVars, wg, fetchCalls, coordVars,
                    resultC >>

\* A worker in local state e evaluates its select and takes the case
\* <-ctx.Done().
WorkerCtxDone(e) ==
    /\ e.pc = "select"
    /\ ctxErr # Nil
    /\ workers' = Step(e, OnCtxDone(e, ctxErr))
    /\ UNCHANGED << toPathVars, getVars, mgrVars, closeVars, ctxErr, genVars, wg, fetchCalls, coordVars,
                    resultC >>

\* The call of fetchFn the worker makes for the request it received.
FetchCall(req) == [id |-> req.id, filename |-> req.filename, url |-> req.url]

\* NextReq with the generator sending its first request on every pass.
NextReqFirst == [id |-> 1, filename |-> reqs[1].filename, url |-> reqs[1].url]

\* The request the generator sends next.
NextReq == [id |-> next, filename |-> reqs[next].filename, url |-> reqs[next].url]

\* The hand-off of a request on urlC (select, case urlC <- req of the
\* generator; select, case req, more := <-requestC with more true of the
\* worker in local state e): the one that evaluates its select finds the
\* other parked.  A generator parked when Done was closed is no longer to
\* be found.  The worker then calls fetchFn.
WorkerRecv(e) ==
    /\ next <= Len(reqs)
    /\ \/ e.pc = "parked" /\ gen = "run"
       \/ e.pc = "select" /\ gen = "parked" /\ ctxErr = Nil
    /\ workers' = Step(e, [e EXCEPT !.pc = "fetch", !.req = NextReq])
    /\ fetchCalls' = fetchCalls (+) SetToBag({FetchCall(NextReq)})
    /\ next' = next + 1
    /\ gen' = "run"
    /\ UNCHANGED << toPathVars, getVars, mgrVars, closeVars, ctxErr, urlC, wg, coordVars, resultC >>

\* WorkerRecvClosed with the wg.Done() forgotten.
WorkerRecvClosedNoDone(e) ==
    /\ \/ e.pc = "select" /\ urlC = "closed"
       \/ e.pc = "closed"
    /\ workers' = Step(e, [e EXCEPT !.pc = "done"])
    /\ UNCHANGED << toPathVars, getVars, mgrVars, closeVars, ctxErr, genVars, wg, fetchCalls, coordVars,
                    resultC >>

\* select, case req, more := <-requestC with more false, taken when the
\* worker evaluates its select or when close(urlC) wakes it: return,
\* wg.Done().
WorkerRecvClosed(e) ==
    /\ \/ e.pc = "select" /\ urlC = "closed"
       \/ e.pc = "closed"
    /\ workers' = Step(e, [e EXCEPT !.pc = "done"])
    /\ wg' = wg - 1
    /\ UNCHANGED << toPathVars, getVars, mgrVars, closeVars, ctxErr, genVars, fetchCalls, coordVars,
                    resultC >>

\* The errors a call of fetchFn can return: nil, an error of its own, or,
\* once the context is done, the context's error wrapped by the HTTP client.
FetchErrors(req) ==
    {Nil, EOF} \cup (IF ctxErr # Nil THEN {Wrap("Get", req.url, ctxErr)} ELSE {})

\* The result the worker sends for its request and the error of the fetch.
WorkerResult(req, err) == [filename |-> req.filename, err |-> err]

\* fetchFn returns; the worker goes to send the result.
FetchReturn(e) ==
    /\ e.pc = "fetch"
    /\ \E err \in FetchErrors(e.req) :
          workers' = Step(e, [e EXCEPT !.pc = "post", !.err = err,
                                       !.res = WorkerResult(e.req, err)])
    /\ UNCHANGED << toPathVars, getVars, mgrVars, closeVars, ctxErr, genVars, wg, fetchCalls, coordVars,
                    resultC >>

\* ------------------------------------------------------------------------
\* The sentinel goroutine.

\* SentinelClose with the wg.Wait() forgotten.
SentinelCloseNoWait ==
    /\ resultC = "open"
    /\ resultC' = "closed"
    /\ UNCHANGED << toPathVars, getVars, mgrVars, closeVars, ctxErr, genVars,
                    workerVars, coordVars >>

\* wg.Wait() returns; close(resultC).
SentinelClose ==
    /\ resultC = "open"
    /\ wg = 0
    /\ resultC' = "closed"
    /\ UNCHANGED << toPathVars, getVars, mgrVars, closeVars, ctxErr, genVars, workerVars, coordVars >>

\* ------------------------------------------------------------------------
\* The result processor (the loop of Download over resultC).

LogFailed(res) ==
    [fmt |-> "failed", count |-> 0, total |-> 0, filename |-> res.filename,
     err |-> res.err]

LogDownloaded(n, t, res) ==
    [fmt |-> "downloaded", count |-> n, total |-> t, filename |-> res.filename,
     err |-> Nil]

\* Process with the policy test dropped: every error ends the loop.
ProcessAlwaysStrict(res, n, t, ignore) ==
    IF res.err # Nil /\ ErrorsIs(res.err, Canceled)
    THEN [return |-> TRUE, ret |-> res.err, count |-> n, lines |-> <<>>]
    ELSE IF res.err # Nil
    THEN [return |-> TRUE, ret |-> Wrap("failed", res.filename, res.err),
          count |-> n, lines |-> <<>>]
    ELSE [return |-> FALSE, ret |-> Nil, count |-> n + 1,
          lines |-> << LogDownloaded(n + 1, t, res) >>]

\* Process with the policy test dropped the other way: no error of a fetch
\* ends the loop.
ProcessAlwaysTolerant(res, n, t, ignore) ==
    IF res.err # Nil /\ ErrorsIs(res.err, Canceled)
    THEN [return |-> TRUE, ret |-> res.err, count |-> n, lines |-> <<>>]
    ELSE [return |-> FALSE, ret |-> Nil, count |-> n + 1,
          lines |-> (IF res.err # Nil THEN << LogFailed(res) >> ELSE <<>>)
                    \o << LogDownloaded(n + 1, t, res) >>]

\* One pass of the loop body on result res, with count n and total t:
\* whether Download returns and with what, the new count, the lines logged.
Process(res, n, t, ignore) ==
    IF res.err # Nil /\ ErrorsIs(res.err, Canceled)
    THEN [return |-> TRUE, ret |-> res.err, count |-> n, lines |-> <<>>]
    ELSE IF res.err # Nil /\ ~ignore
    THEN [return |-> TRUE, ret |-> Wrap("failed", res.filename, res.err),
          count |-> n, lines |-> <<>>]
    ELSE [return |-> FALSE, ret |-> Nil, count |-> n + 1,
          lines |-> (IF res.err # Nil THEN << LogFailed(res) >> ELSE <<>>)
                    \o << LogDownloaded(n + 1, t, res) >>]

\* AfterSend with a worker that returns after the result of a failed fetch.
AfterSendStopOnError(e) ==
    IF e.pc = "post" /\ e.err = Nil
    THEN [e EXCEPT !.pc = "select", !.req = NoReq, !.err = Nil, !.res = NoRes]
    ELSE IF e.pc = "post"
    THEN [e EXCEPT !.pc = "done", !.req = NoReq, !.err = Nil, !.res = NoRes]
    ELSE [e EXCEPT !.pc = "done", !.res = NoRes, !.cancels = e.cancels + 1]

\* AfterSend with the return after the cancellation result forgotten: the
\* worker goes back to its select.
AfterSendNoReturn(e) ==
    IF e.pc = "post"
    THEN [e EXCEPT !.pc = "select", !.req = NoReq, !.err = Nil, !.res = NoRes]
    ELSE [e EXCEPT !.pc = "select", !.res = NoRes, !.cancels = e.cancels + 1]

\* The worker's local state after its send on resultC: back to the select
\* after the result of a request, return after the cancellation result.
AfterSend(e) ==
    IF e.pc = "post"
    THEN [e EXCEPT !.pc = "select", !.req = NoReq, !.err = Nil, !.res = NoRes]
    ELSE [e EXCEPT !.pc = "done", !.res = NoRes, !.cancels = e.cancels + 1]

\* resultC is unbuffered: the send of a worker in local state e and the
\* processor's receive are one step, followed by the loop body; a worker
\* that returns calls wg.Done().
ResultRecv(e) ==
    /\ dl = "drain"
    /\ e.pc \in {"post", "cancel"}
    /\ LET p == Process(e.res, count, total, ignoreHTTPerr)
       IN  /\ delivered' = Append(delivered,
                  [filename |-> e.res.filename, err |-> e.res.err,
                   id |-> IF e.pc = "post" THEN e.req.id ELSE 0])
           /\ count' = p.count
           /\ lg' = lg \o p.lines
           /\ ret' = p.ret
           /\ dl' = IF p.return THEN "returned" ELSE "drain"
    /\ workers' = Step(e, AfterSend(e))
    /\ wg' = IF AfterSend(e).pc = "done" THEN wg - 1 ELSE wg
    /\ UNCHANGED << toPathVars, getVars, mgrVars, closeVars, ctxErr, genVars, fetchCalls, urls, reqs,
                    total, resultC >>

\* resultC is closed: the loop ends and Download returns nil.
ResultsClosed ==
    /\ dl = "drain"
    /\ resultC = "closed"
    /\ dl' = "returned"
    /\ ret' = Nil
    /\ UNCHANGED << toPathVars, getVars, mgrVars, closeVars, ctxErr, genVars, workerVars, urls, reqs,
                    total, count, lg, delivered, resultC >>

\* ------------------------------------------------------------------------
\* Specification.

\* No call of Close is in progress.
NoClose == \A c \in Closers : cpc[c] = "idle"

\* The calls of Close may overlap each other; they come before the call of
\* Download and do not overlap it (Close touches nothing the pipeline reads
\* after Download's first line).
Entry ==
    \/ \E c \in Closers : dl = "idle" /\ CloseLoad(c)
    \/ \E c \in Closers : CloseStore(c)
    \/ \E c \in Closers : CloseFsc(c)
    \/ \E u \in UrlLists : NoClose /\ DownloadReject(u)
    \/ \E u \in UrlLists : NoClose /\ DownloadSpawn(u)

\* The steps of the pipeline that a done context leaves possible.
Drain ==
    \/ GenCtxDone
    \/ GenClose
    \/ \E e \in WorkerStates : WorkerCtxDone(e)
    \/ \E e \in WorkerStates : WorkerRecvClosed(e)
    \/ SentinelClose
    \/ \E e \in WorkerStates : ResultRecv(e)
    \/ ResultsClosed

\* The steps that need a context that is not done at some select: parking
\* on urlC, the hand-off of a request and the fetch that follows it.
HandOff ==
    \/ GenPark
    \/ \E e \in WorkerStates : WorkerPark(e)
    \/ \E e \in WorkerStates : WorkerRecv(e)
    \/ \E e \in WorkerStates : FetchReturn(e)

Run ==
    \/ Entry
    \/ HandOff
    \/ Drain

Next ==
    \/ Cancel
    \/ Deadline
    \/ Run

Spec == Init /\ [][Next]_vars

\* The runs whose context is done before anything else happens.  No step
\* of HandOff is ever enabled in them: GenPark, WorkerPark and the hand-off
\* of WorkerRecv each require ctxErr = Nil, and FetchReturn requires an
\* earlier WorkerRecv.
NextDone ==
    \/ Entry
    \/ Drain

SpecDone == InitDone /\ [][NextDone]_vars

\* The goroutines of the pipeline are scheduled fairly and every call of
\* fetchFn returns; nothing obliges the caller to cancel, to close or to
\* call Download.
Fairness ==
    /\ WF_vars(GenPark)
    /\ WF_vars(GenCtxDone)
    /\ WF_vars(GenClose)
    /\ WF_vars(\E e \in WorkerStates : WorkerPark(e))
    /\ WF_vars(\E e \in WorkerStates : WorkerCtxDone(e))
    /\ WF_vars(\E e \in WorkerStates : WorkerRecv(e))
    /\ WF_vars(\E e \in WorkerStates : WorkerRecvClosed(e))
    /\ WF_vars(\E e \in WorkerStates : FetchReturn(e))
    /\ WF_vars(SentinelClose)
    /\ WF_vars(\E e \in WorkerStates : ResultRecv(e))
    /\ WF_vars(ResultsClosed)

FairSpec == Spec /\ Fairness

\* ------------------------------------------------------------------------
\* DownloadToPath: NewWithPath, Download, and the deferred Close.

\* The error of fsadapter.New on a path it cannot open.
ErrOpen == Err("open", <<>>)

\* Before the call of DownloadToPath: the options it will be given, a live
\* context, and no Manager yet (NewWithPath makes one around a real
\* FSCloser).
InitToPath ==
    /\ cfgWorkers \in 1..MaxWorkers
    /\ numWorkers = NumWorkers(cfgWorkers)
    /\ ignoreHTTPerr \in BOOLEAN
    /\ viaPath = TRUE
    /\ urls = <<>>
    /\ tp = "call"
    /\ newErr = Nil
    /\ tpRet = Nil
    /\ NoGet
    /\ Fresh(Nil)

\* m, err := NewWithPath(zipOrDir, opts...), where fsadapter.New answers
\* err; if err != nil { return nil }.
ToPathNew(err) ==
    /\ tp = "call"
    /\ newErr' = err
    /\ tp' = IF err # Nil THEN "returned" ELSE "download"
    /\ tpRet' = Nil
    /\ UNCHANGED << getVars, mgrVars, closeVars, ctxErr, genVars, workerVars,
                    coordVars, resultC >>

\* return m.Download(ctx, subdir, urls): the call, up to the result loop.
ToPathDownload ==
    /\ tp = "download"
    /\ \E u \in UrlLists : DownloadReject(u) \/ DownloadSpawn(u)

\* defer m.Close(), run once Download has returned: its first step.
ToPathClose ==
    /\ tp = "download"
    /\ dl = "returned"
    /\ fscCloses = 0
    /\ CloseLoad(1)

\* The deferred Close is over: DownloadToPath returns what Download
\* returned.
ToPathReturn ==
    /\ tp = "download"
    /\ dl = "returned"
    /\ fscCloses = 1
    /\ cpc[1] = "idle"
    /\ tp' = "returned"
    /\ tpRet' = ret
    /\ UNCHANGED << newErr, getVars, mgrVars, closeVars, ctxErr, genVars,
                    workerVars, coordVars, resultC >>

NextToPath ==
    \/ \E err \in {Nil, ErrOpen} : ToPathNew(err)
    \/ ToPathDownload
    \/ HandOff
    \/ Drain
    \/ Cancel
    \/ Deadline
    \/ ToPathClose
    \/ CloseStore(1)
    \/ CloseFsc(1)
    \/ ToPathReturn

SpecToPath == InitToPath /\ [][NextToPath]_vars

\* ------------------------------------------------------------------------
\* parseURLs on its own.

\* The URLs handed to parseURLs.
ParsePool == {EmptyURL, UrlAB, UrlXAB, UrlCD, UrlDir, UrlShort, UrlNoScheme,
              UrlNoPath, UrlQuery, UrlFtp}

ParseLists == UNION {[1..n -> ParsePool] : n \in 0..MaxParse}

\* Before the call: the list in urls.
InitParse ==
    /\ cfgWorkers = 1
    /\ numWorkers = NumWorkers(cfgWorkers)
    /\ ignoreHTTPerr = TRUE
    /\ viaPath = FALSE
    /\ urls \in ParseLists
    /\ NoToPath
    /\ NoGet
    /\ Fresh(Nil)

\* reqs, err := parseURLs(urls)
ParseCall ==
    /\ dl = "idle"
    /\ dl' = "parsed"
    /\ reqs' = parseURLs(urls).reqs
    /\ ret' = parseURLs(urls).err
    /\ UNCHANGED << toPathVars, getVars, mgrVars, closeVars, ctxErr, genVars,
                    workerVars, urls, total, count, lg, delivered, resultC >>

SpecParse == InitParse /\ [][ParseCall]_vars

\* ------------------------------------------------------------------------
\* get on its own: one call, on one destination file.

\* filepath.Join(dir, filename) of the call: "test/file".
DestPath == <<"t","e","s","t","/","f","i","l","e">>

\* The status codes of the responses.
Statuses == {StatusOK, 404, 500}

\* The response bodies.
Bodies == UNION {[1..n -> {"t", "d"}] : n \in 0..MaxBody}

\* What the collaborators of get answer to one call: the response of the
\* server (status, body), and which step, if any, fails: building the
\* request, http.DefaultClient.Do, fsa.Create, or io.Copy.
Resps ==
    [fault : {"none", "request", "do", "create", "copy"}, status : Statuses,
     body : Bodies]

\* The destination before the call: absent, empty, or with old content.
OldFiles == {NoFile, File(<<>>), File(<<"o">>)}

\* Before the call of get.
InitGet ==
    /\ cfgWorkers = 1
    /\ numWorkers = NumWorkers(cfgWorkers)
    /\ ignoreHTTPerr = TRUE
    /\ viaPath = FALSE
    /\ urls = <<>>
    /\ NoToPath
    /\ gpc = "call"
    /\ resp \in Resps
    /\ file \in OldFiles
    /\ getErr = Nil
    /\ Fresh(Nil)

\* The first k bytes of body.
Prefix(body, k) == SubSeq(body, 1, k)

\* get with the status tested before the destination is created.
GetOutcomesStatusFirst(r, old) ==
    IF r.fault = "request" THEN {[err |-> Err("new request", <<>>), file |-> old]}
    ELSE IF r.fault = "do" THEN {[err |-> Err("Get", <<>>), file |-> old]}
    ELSE IF r.status # StatusOK
    THEN {[err |-> Err("invalid server status code", r.status), file |-> old]}
    ELSE IF r.fault = "create"
    THEN {[err |-> Wrap("error creating the file at path", DestPath,
                        Err("create", <<>>)),
           file |-> old]}
    ELSE IF r.fault = "copy"
    THEN {[err |-> Err("copy", <<>>), file |-> File(Prefix(r.body, k))] :
          k \in 0..Len(r.body)}
    ELSE {[err |-> Nil, file |-> File(r.body)]}

\* The outcomes of get when its collaborators answer r and the destination
\* holds old: the error returned and the destination afterwards.  Create
\* gives an empty file, whatever was there; a copy that fails has written
\* some of the body.
GetOutcomes(r, old) ==
    IF r.fault = "request" THEN {[err |-> Err("new request", <<>>), file |-> old]}
    ELSE IF r.fault = "do" THEN {[err |-> Err("Get", <<>>), file |-> old]}
    ELSE IF r.fault = "create"
    THEN {[err |-> Wrap("error creating the file at path", DestPath,
                        Err("create", <<>>)),
           file |-> old]}
    ELSE IF r.status # StatusOK
    THEN {[err |-> Err("invalid server status code", r.status), file |-> File(<<>>)]}
    ELSE IF r.fault = "copy"
    THEN {[err |-> Err("copy", <<>>), file |-> File(Prefix(r.body, k))] :
          k \in 0..Len(r.body)}
    ELSE {[err |-> Nil, file |-> File(r.body)]}

\* The call of get, from the request to the deferred closes.
Get ==
    /\ gpc = "call"
    /\ gpc' = "done"
    /\ \E o \in GetOutcomes(resp, file) :
          /\ getErr' = o.err
          /\ file' = o.file
    /\ UNCHANGED << toPathVars, resp, mgrVars, closeVars, ctxErr, genVars,
                    workerVars, coordVars, resultC >>

SpecGet == InitGet /\ [][Get]_vars

\* ------------------------------------------------------------------------
\* Download with every kind of argument of the NumWorkers option.

\* The arguments of the option: negative, zero, and the positive ones.
WorkerOptions == (-1)..MaxWorkers

\* The lists of valid URLs handed to Download here.
ValidLists == UNION {[1..n -> {UrlAB}] : n \in 0..MaxUrls}

\* The state after New(fsa, NumWorkers(n), IgnoreHTTPErrors(b)).
InitWorkers ==
    /\ cfgWorkers \in WorkerOptions
    /\ numWorkers = NumWorkers(cfgWorkers)
    /\ ignoreHTTPerr \in BOOLEAN
    /\ viaPath = FALSE
    /\ urls = <<>>
    /\ NoToPath
    /\ NoGet
    /\ Fresh(Nil)

NextWorkers ==
    \/ \E u \in ValidLists : DownloadSpawn(u)
    \/ HandOff
    \/ Drain
    \/ Cancel
    \/ Deadline

SpecWorkers == InitWorkers /\ [][NextWorkers]_vars

\* ------------------------------------------------------------------------
\* Vocabulary of the properties.

\* Download got past the parser and started the pipeline.
Started == resultC # "nil"

\* The number of workers whose local state satisfies P.
CountWorkers(P(_)) ==
    BagCardinality([e \in {x \in WorkerStates : P(x)} |-> workers[e]])

\* The number of calls of fetchFn made for request i.
Calls(i) ==
    BagCardinality([c \in {x \in BagToSet(fetchCalls) : x.id = i} |-> fetchCalls[c]])

\* The number of workers that hold request i.
Holders(i) ==
    LET HoldsI(e) == e.req.id = i
    IN  CountWorkers(HoldsI)

\* One call of fetchFn for each request parseURLs makes of u, with the
\* request's file name and URL.
ExpectedCalls(u) ==
    LET r == parseURLs(u).reqs
    IN  SetToBag({[id |-> i, filename |-> r[i].filename, url |-> r[i].url] :
                  i \in 1..Len(r)})

\* No call of fetchFn has returned an error so far.
NoFetchFailed ==
    /\ \A k \in 1..Len(delivered) : delivered[k].err = Nil
    /\ \A e \in WorkerStates : e.err = Nil

\* ------------------------------------------------------------------------
\* C1: when the context is never cancelled and no fetch fails, Download
\* returns nil, and by then fetchFn has been called exactly once for each
\* request of parseURLs(urls), with that request's file name and URL, and
\* for nothing else.
C1_EachRequestFetchedOnce ==
    (dl = "returned" /\ Started /\ ctxErr = Nil /\ NoFetchFailed)
        => (ret = Nil /\ fetchCalls = ExpectedCalls(urls))

\* Download has returned nil after two workers fetched two requests.
C1_Witness ==
    /\ dl = "returned"
    /\ ret = Nil
    /\ ctxErr = Nil
    /\ NoFetchFailed
    /\ numWorkers = 2
    /\ Len(reqs) = 2
    /\ BagCardinality(fetchCalls) = 2

\* C2: in every run, abandoned or not, each request is received by at most
\* one worker and handed to fetchFn at most once: no two workers hold the
\* same request.
C2_NoRequestTwice ==
    \A i \in 1..Len(reqs) : Holders(i) <= 1 /\ Calls(i) <= 1

\* Two workers hold one request each, and the two requests are equal (the
\* same URL twice in the list).
C2_Witness ==
    /\ Len(reqs) = 2
    /\ reqs[1] = reqs[2]
    /\ Holders(1) = 1
    /\ Holders(2) = 1

\* C3: with fair scheduling and every fetch returning, every call of
\* Download that starts the pipeline returns, whatever the URLs, the number
\* of workers, the policy and the moment the context ends; and Download
\* has returned nil only with the result channel closed.
C3_DownloadReturns ==
    /\ []((dl = "returned" /\ ret = Nil) => resultC = "closed")
    /\ ((dl = "drain") ~> (dl = "returned"))

\* Download has returned nil, on the closed result channel, in a run whose
\* context expired while a worker was at its select.
C3_Witness ==
    /\ dl = "returned"
    /\ ret = Nil
    /\ resultC = "closed"
    /\ ctxErr = DeadlineExceeded
    /\ Len(reqs) = 2
    /\ \E k \in 1..Len(delivered) : delivered[k].id = 0

\* C4: under the tolerant policy with a context never cancelled, whatever
\* fetches fail, Download returns nil and every request of parseURLs(urls)
\* has been fetched.
C4_TolerantReturnsNil ==
    (dl = "returned" /\ Started /\ ignoreHTTPerr /\ ctxErr = Nil)
        => (ret = Nil /\ fetchCalls = ExpectedCalls(urls))

\* Download has returned nil under the tolerant policy although both of
\* its two fetches failed.
C4_Witness ==
    /\ dl = "returned"
    /\ ignoreHTTPerr
    /\ ctxErr = Nil
    /\ ret = Nil
    /\ Len(delivered) = 2
    /\ \A k \in 1..Len(delivered) : delivered[k].err = EOF

\* C5: under the strict policy a drained result with an error is the last
\* result drained: Download has returned, with a non-nil error which, for a
\* non-cancellation error, names the result's file and wraps its error; so
\* Download returns nil only if every drained result was a success.
C5_StrictFailsFast ==
    ~ignoreHTTPerr =>
        /\ \A k \in 1..Len(delivered) :
              delivered[k].err # Nil =>
                  /\ k = Len(delivered)
                  /\ dl = "returned"
                  /\ ret # Nil
                  /\ ~ErrorsIs(delivered[k].err, Canceled) =>
                        /\ Head(ret) = [msg |-> "failed", arg |-> delivered[k].filename]
                        /\ Tail(ret) = delivered[k].err
        /\ (dl = "returned" /\ Started /\ ret = Nil) =>
              \A k \in 1..Len(delivered) : delivered[k].err = Nil

\* Under the strict policy Download has returned the error of the first
\* result it drained, a failed fetch, while another worker still holds a
\* result that is never drained.
C5_Witness ==
    /\ ~ignoreHTTPerr
    /\ dl = "returned"
    /\ Len(delivered) = 1
    /\ delivered[1].err = EOF
    /\ ret = Wrap("failed", delivered[1].filename, EOF)
    /\ \E e \in WorkerStates : e.pc = "post"

\* C6: a drained cancellation result (the result with the empty file name
\* a worker sends on <-ctx.Done(), whether the context was cancelled or ran
\* past its deadline) is the last result drained: Download has returned a
\* non-nil error, under either policy, and the result was neither counted
\* nor logged.
C6_CancellationAlwaysAborts ==
    \A k \in 1..Len(delivered) :
        delivered[k].id = 0 =>
            /\ k = Len(delivered)
            /\ dl = "returned"
            /\ ret # Nil
            /\ count < k
            /\ \A j \in 1..Len(lg) : lg[j].filename # <<>>

\* C7: a worker started with a context that is done already makes no call
\* of fetchFn, sends the cancellation result (empty file name, the
\* context's error) and nothing else, and terminates only after sending it,
\* whatever the request channel holds.
C7_DoneContextWorker ==
    /\ fetchCalls = EmptyBag
    /\ \A e \in WorkerStates :
          /\ e.pc \in {"select", "cancel", "done"}
          /\ e.pc = "cancel" => e.res = [filename |-> <<>>, err |-> ctxErr]
          /\ e.pc = "done" => e.cancels = 1
    /\ \A k \in 1..Len(delivered) :
          delivered[k] = [filename |-> <<>>, err |-> ctxErr, id |-> 0]

\* The results drained so far for request i.
ResultsOf(i) == {k \in 1..Len(delivered) : delivered[k].id = i}

\* C8: the result a worker sends for a request holds the request's file
\* name and the very error fetchFn returned, there is at most one result per
\* request, and an error of a fetch does not end a worker: a worker that has
\* returned without a cancellation result found the request channel closed,
\* and while the context is live that is after every request was handed out.
C8_FetchErrorKeepsWorker ==
    /\ \A e \in WorkerStates :
          /\ e.pc = "post" =>
                e.res = [filename |-> reqs[e.req.id].filename, err |-> e.err]
          /\ (e.pc = "done" /\ e.cancels = 0) => urlC = "closed"
          /\ e.cancels > 0 => ctxErr # Nil
          /\ (e.pc = "done" /\ ctxErr = Nil) => next > Len(reqs)
    /\ \A i \in 1..Len(reqs) :
          /\ Cardinality(ResultsOf(i)) <= 1
          /\ \A k \in ResultsOf(i) : delivered[k].filename = reqs[i].filename

\* With a live context the only worker has sent the error of its first
\* fetch and is fetching the second request.
C8_Witness ==
    /\ ctxErr = Nil
    /\ numWorkers = 1
    /\ Len(delivered) = 1
    /\ delivered[1].err = EOF
    /\ delivered[1].id = 1
    /\ \E e \in WorkerStates : e.pc = "fetch" /\ e.req.id = 2

\* u holds a non-empty entry that is not a valid URL.
HasInvalid(u) == \E i \in 1..Len(u) : u[i] # <<>> /\ basename(u[i]).err # Nil

\* C9: Download on a manager built from a path and closed, or with a list
\* holding an invalid non-empty URL, returns a non-nil error ("manager is
\* closed", or the parser's error wrapped) and has spawned nothing and
\* fetched nothing, the valid URLs of the list included.
C9_RejectedBeforePipeline ==
    (dl = "returned" /\ ((viaPath /\ isClosed) \/ HasInvalid(urls))) =>
        /\ ret # Nil
        /\ isClosed => ret = Err("manager is closed", <<>>)
        /\ ~isClosed =>
              /\ Head(ret) = [msg |-> "error parsing urls", arg |-> <<>>]
              /\ \E i \in 1..Len(urls) :
                    /\ basename(urls[i]).err # Nil
                    /\ Tail(ret) = basename(urls[i]).err
        /\ ~Started
        /\ gen = "none"
        /\ urlC = "nil"
        /\ workers = EmptyBag
        /\ fetchCalls = EmptyBag

\* Download has returned on a closed manager built from a path; its list
\* holds a valid URL and an invalid one.
C9_Witness ==
    /\ dl = "returned"
    /\ viaPath
    /\ isClosed
    /\ urls = << UrlAB, UrlDir >>
    /\ ret = Err("manager is closed", <<>>)

\* The number of requests the workers have received.
Received == BagCardinality(fetchCalls)

\* The number of results the workers have sent.
Posted == Len(delivered)

\* The number of cancellation results the workers have sent.
CancelsSent == Cardinality(ResultsOf(0))

\* Every worker has returned.
AllWorkersDone == \A e \in WorkerStates : e.pc = "done"

\* C10: the results sent are never more than the requests received plus
\* the cancellation results; no worker sends more than one cancellation
\* result; and once every worker has returned, the results sent are exactly
\* the requests received plus the cancellation results.
C10_ResultAccounting ==
    /\ Posted <= Received + CancelsSent
    /\ \A e \in WorkerStates : e.cancels <= 1
    /\ LET SentCancel(e) == e.cancels = 1
       IN  CancelsSent = CountWorkers(SentCancel)
    /\ (Started /\ AllWorkersDone) => Posted = Received + CancelsSent

\* Both workers have returned, one of them after a cancellation result, and
\* a request was received and answered before that.
C10_Witness ==
    /\ Started
    /\ numWorkers = 2
    /\ AllWorkersDone
    /\ Received >= 1
    /\ CancelsSent >= 1
    /\ Posted = Received + CancelsSent

\* C11: on a manager built from a path, m.fsc.Close() is called at most
\* once, however many calls of Close there are and however they interleave;
\* every later call returns nil without touching the storage.
C11_StorageClosedAtMostOnce == fscCloses <= 1

\* C12: when NewWithPath fails, DownloadToPath returns a non-nil error, and
\* no download has been started.
C12_ConstructionFailurePropagates ==
    (tp = "returned" /\ newErr # Nil) =>
        /\ tpRet # Nil
        /\ dl = "idle"
        /\ fetchCalls = EmptyBag

\* The non-empty entries of u, in order.
NonEmpty(u) == SelectSeq(u, LAMBDA x : x # <<>>)

\* C13: parseURLs returns an error and no request at all as soon as one
\* non-empty entry of the list is invalid, wherever it stands; otherwise it
\* returns no error and one request for each non-empty entry, in the order
\* of the list, with the entry as its url; empty entries give nothing.
C13_ParseAllOrNothing ==
    dl = "parsed" =>
        IF HasInvalid(urls)
        THEN ret # Nil /\ reqs = <<>>
        ELSE /\ ret = Nil
             /\ Len(reqs) = Len(NonEmpty(urls))
             /\ \A i \in 1..Len(reqs) : reqs[i].url = NonEmpty(urls)[i]

\* parseURLs has met an invalid entry after a valid one and returned the
\* error without the request of the valid one.
C13_Witness ==
    /\ dl = "parsed"
    /\ urls = << UrlAB, UrlNoPath >>
    /\ ret # Nil
    /\ reqs = <<>>

\* get received a response and the storage handed out the destination.
GotResponse == gpc = "done" /\ resp.fault \in {"none", "copy"}

\* C14: get creates the destination before it tests the status.  After a
\* response with a status other than 200, get has returned an error and
\* the destination exists and is empty, holding nothing of the body; after
\* a response with status 200 whose body was copied, get has returned nil
\* and the destination holds exactly the body.
C14_CreatedBeforeStatusCheck ==
    GotResponse =>
        /\ resp.status # StatusOK => (getErr # Nil /\ file.exists /\ file.data = <<>>)
        /\ (resp.status = StatusOK /\ resp.fault = "none") =>
              (getErr = Nil /\ file = File(resp.body))

\* get has returned an error for a 404 with a body, and the destination is
\* there, empty.
C14_Witness ==
    /\ GotResponse
    /\ resp.status = 404
    /\ resp.body = <<"t", "d">>
    /\ getErr = Err("invalid server status code", 404)
    /\ file = File(<<>>)

\* Download has returned from inside the result loop: on a cancellation
\* result, or on the error of a fetch under the strict policy.
ReturnedEarly == dl = "returned" /\ Started /\ ret # Nil

\* The generator, every worker and the sentinel have returned.
PipelineOver == gen = "done" /\ AllWorkersDone /\ resultC = "closed"

\* C15: with fair scheduling and every fetch returning, once Download has
\* returned early the generator, every worker and the sentinel terminate,
\* although nobody reads the results they still have.
C15_TasksEndAfterEarlyReturn == ReturnedEarly ~> PipelineOver

\* The requests that have left the generator and whose result the
\* processor has not received yet.
InFlight == (next - 1) - Cardinality({k \in 1..Len(delivered) : delivered[k].id # 0})

\* C16: the requests in flight are never more than the workers of the run,
\* and the workers of the run are as many as the NumWorkers option asked
\* for, or 12 if it asked for less than one.
C16_BoundedInFlight ==
    Started =>
        /\ numWorkers = (IF cfgWorkers >= 1 THEN cfgWorkers ELSE defNumWorkers)
        /\ BagCardinality(workers) = numWorkers
        /\ InFlight <= numWorkers

\* The only worker holds the first request, and the generator is parked
\* with the second.
C16_Witness ==
    /\ Started
    /\ cfgWorkers = 1
    /\ InFlight = 1
    /\ next = 2
    /\ Len(reqs) = 2
    /\ gen = "parked"

\* err is the error of a context that is done, or wraps it.
IsCancellation(err) == ErrorsIs(err, Canceled) \/ ErrorsIs(err, DeadlineExceeded)

\* The drained results without an error.
Succeeded == {k \in 1..Len(delivered) : delivered[k].err = Nil}

\* The drained results with an error that is not a cancellation.
Failed ==
    {k \in 1..Len(delivered) :
        delivered[k].err # Nil /\ ~IsCancellation(delivered[k].err)}

\* The lines logged so far with format f.
Lines(f) == {j \in 1..Len(lg) : lg[j].fmt = f}

\* C17: under the tolerant policy there is one "downloaded" line, and one
\* increment of count, for each drained result without an error, and one
\* "failed" line for each drained result with a non-cancellation error;
\* a failed result is neither counted nor logged as downloaded.  Stated
\* for the runs whose context is live, in which every drained result is
\* the result of a fetch.
C17_ProgressReporting ==
    (ignoreHTTPerr /\ ctxErr = Nil) =>
        /\ count = Cardinality(Succeeded)
        /\ Cardinality(Lines("downloaded")) = Cardinality(Succeeded)
        /\ Cardinality(Lines("failed")) = Cardinality(Failed)

\* C18: whatever the policy and whenever the context ends, Download
\* returns nil only if fetchFn has been called for every request of
\* parseURLs(urls).
C18_NilMeansAllFetched ==
    (dl = "returned" /\ Started /\ ret = Nil) =>
        \A i \in 1..Len(reqs) : Calls(i) = 1

\* C19: urlC is closed by the generator as it returns, on either of its
\* exit paths, once, and nothing is sent on it afterwards; resultC is closed
\* by the sentinel, once, when every worker has returned, and nothing is
\* sent on it afterwards.  No step sends on, or closes, a closed channel.
C19_ChannelsClosedOnce ==
    [][/\ (gen' = "done") <=> (urlC' = "closed")
       /\ (urlC # "closed" /\ urlC' = "closed") => gen \in {"run", "parked"}
       /\ urlC = "closed" => (urlC' = "closed" /\ gen' = gen /\ next' = next)
       /\ (resultC # "closed" /\ resultC' = "closed") => (wg = 0 /\ AllWorkersDone)
       /\ resultC = "closed" =>
             (resultC' = "closed" /\ delivered' = delivered /\ workers' = workers)
      ]_vars

\* The generator has left on <-ctx.Done() with a request unsent, the worker
\* has returned, and both channels are closed.
C19_Witness ==
    /\ urlC = "closed"
    /\ resultC = "closed"
    /\ gen = "done"
    /\ ctxErr # Nil
    /\ next <= Len(reqs)
    /\ AllWorkersDone

\* The number of workers inside fetchFn for the destination name.
Fetching(name) ==
    LET FetchesName(e) == e.pc = "fetch" /\ e.req.filename = name
    IN  CountWorkers(FetchesName)

\* C20: no two workers are inside fetchFn for the same destination
\* filepath.Join(dir, filename) at the same time (dir is the same for all
\* the requests of a run), also when several URLs of the list end in the
\* same path element or are the same URL.
C20_NoTwoFetchesOfOnePath ==
    \A i \in 1..Len(reqs) : Fetching(reqs[i].filename) <= 1

====
